---- MODULE Spec2Model ----
(***************************************************************************)
(* Model of the gateway client protocol layer (GatewayClient): the         *)
(* WebSocket transport handle, the pending-request table, the reconnect    *)
(* timer, and the callbacks the browser dispatches on the event loop.      *)
(***************************************************************************)
EXTENDS Integers, Sequences, FiniteSets, TLC

\* ---------------------------------------------------------------- bounds
MaxSockets == 2      \* WebSocket objects created over a run
MaxCalls == 3        \* request() calls, handshakes included
MaxEvents == 2       \* Event frames delivered over a run
MaxWraps == 2        \* runs of the ChatTab event-handler effect with a client

\* the values Math.random().toString(36).substring(2) can return
Ids == {1, 2}
\* the payload the gateway puts in the successful response to request id
PayloadOf(id) == <<"payload", id>>
Errors == {"err"}
Token == "tok"

\* inbound frames after JSON.parse: responses, events, and anything else
ResFrames ==
  {[type |-> "res", id |-> i, ok |-> TRUE, payload |-> PayloadOf(i),
    error |-> "none"] : i \in Ids}
    \cup [type : {"res"}, id : Ids, ok : {FALSE}, payload : {"none"}, error : Errors]
\* the gateway numbers the events it pushes: the k-th carries seq k
EventFrame(k) ==
  [type |-> "event", event |-> "chat.stream", payload |-> <<"delta", k>>,
   seq |-> k]
OtherFrames == [type : {"ping"}]

VARIABLES
  sockets,          \* readyState of every WebSocket created so far
  ws,               \* this.ws: 0 is null, else an index into sockets
  pending,          \* this.pending: id -> index of the awaiting call, 0 = no entry
  reconnectTimer,   \* this.reconnectTimer is non-null
  timers,           \* number of setTimeout callbacks scheduled and not yet run
  calls,            \* every accepted request() and what its caller observed
  refused,          \* per method, the request() calls that threw not-connected
  sent,             \* frames handed to ws.send, in order
  arrived,          \* Event frames delivered to onmessage, in order
  eventLog,         \* invocations of the onEvent handler, in order
  statusLog,        \* invocations of the onStatusChange observer, in order
  userDisconnected, \* disconnect() was the caller's last lifecycle call
  reconnects,       \* number of reconnect timeouts that have run
  lastFrame,        \* type and id of the frame when onmessage ran last, else none
  isOnboarded,      \* App state isOnboarded
  config,           \* App state config: the load that produced it, 0 = null
  gatewayClient,    \* App state gatewayClient: 0 = null, else the client's number
  effectDue,        \* the gateway client effect is to run for the last render
  constructed,      \* number of GatewayClient objects the shell has constructed
  appMounted,       \* App has not been unmounted
  inFlight,         \* checkOnboarding() calls whose config load has not returned
  chatTab,          \* a ChatTab instance is mounted
  chatEffectDue,    \* the event-handler effect of ChatTab is to run
  wrappers,         \* number of wrappers ChatTab has put around client.onEvent
  chatMessages,     \* App state chatMessages
  streamingMessage, \* App state streamingMessage: the deltas appended so far
  awaiting,         \* the calls handleSend is awaiting
  handled           \* invocations of the handlers in the onEvent chain, in order

clientState == <<sockets, ws, pending, reconnectTimer, timers, calls, refused,
                 sent, arrived, eventLog, statusLog, userDisconnected,
                 reconnects>>
clientVars == <<clientState, lastFrame>>
appVars == <<isOnboarded, config, gatewayClient, effectDue, constructed,
             appMounted, inFlight>>
chatVars == <<chatTab, chatEffectDue, wrappers, chatMessages, streamingMessage,
              awaiting, handled>>
vars == <<clientVars, appVars, chatVars>>

\* the frames the gateway can deliver next
Frames == ResFrames \cup {EventFrame(Len(arrived) + 1)} \cup OtherFrames

NoFrame == [type |-> "none", id |-> 0]
Header(f) == [type |-> f.type, id |-> IF f.type = "res" THEN f.id ELSE 0]

\* ---------------------------------------------------------------- helpers
SetReadyState(socks, s, st) == [socks EXCEPT ![s] = st]

\* WebSocket.close(): only a connecting or open socket starts closing
CloseSocket(socks, s) ==
  IF s # 0 /\ socks[s] \in {"CONNECTING", "OPEN"}
  THEN SetReadyState(socks, s, "CLOSING")
  ELSE socks

\* the guard of request(): this.ws && this.ws.readyState === WebSocket.OPEN
IsOpenLoose(socks) == ws # 0
IsOpenGated(socks) ==
  /\ ws # 0 /\ socks[ws] = "OPEN"
  /\ ~\E c \in 1..Len(calls) :
        calls[c].sock = ws /\ calls[c].method = "connect"
        /\ calls[c].outcome = "pending"
IsOpen(socks) == ws # 0 /\ socks[ws] = "OPEN"

NoParams == [kind |-> "none"]
HandshakeParams ==
  [kind |-> "handshake", minProtocol |-> 3, maxProtocol |-> 3,
   role |-> "operator", token |-> Token]

Methods == {"connect", "chat.send"}
\* request() invocations so far
Requests == Len(calls) + refused["connect"] + refused["chat.send"]

\* the frame request() serialises: const frame = { type: "req", id, method, params }
ReqFrameKind(id, method, params) ==
  [kind |-> "req", id |-> id, method |-> method, params |-> params]
ReqFrame(id, method, params) ==
  [type |-> "req", id |-> id, method |-> method, params |-> params]

\* request(method, params) with the socket table as it is at the call and
\* the id Math.random() returns
request(socks, method, params, id) ==
  IF ~IsOpen(socks)
  THEN /\ refused' = [refused EXCEPT ![method] = @ + 1]
       /\ UNCHANGED <<pending, calls, sent>>
  ELSE /\ UNCHANGED refused
       /\ calls' = Append(calls, [id |-> id, method |-> method, sock |-> ws,
                                  outcome |-> "pending", value |-> "none",
                                  by |-> NoFrame, settles |-> 0])
       /\ pending' = [pending EXCEPT ![id] = Len(calls) + 1]
       /\ sent' = Append(sent, [sock |-> ws,
                                frame |-> ReqFrame(id, method, params)])

\* this.onStatusChange(connected): the observer runs on every call
onStatusChangeOnFlip(connected) ==
  statusLog' = IF statusLog # << >> /\ statusLog[Len(statusLog)] = connected
               THEN statusLog
               ELSE Append(statusLog, connected)
onStatusChange(connected) == statusLog' = Append(statusLog, connected)

\* scheduleReconnect(): one timeout unless one is already recorded
scheduleReconnectAlways ==
  /\ reconnectTimer' = TRUE
  /\ timers' = timers + 1
scheduleReconnectInverted ==
  IF ~reconnectTimer
  THEN UNCHANGED <<reconnectTimer, timers>>
  ELSE /\ reconnectTimer' = TRUE
       /\ timers' = timers + 1
scheduleReconnectIfOpened ==
  IF reconnectTimer \/ \A k \in 1..Len(statusLog) : ~statusLog[k]
  THEN UNCHANGED <<reconnectTimer, timers>>
  ELSE /\ reconnectTimer' = TRUE
       /\ timers' = timers + 1
scheduleReconnect ==
  IF reconnectTimer
  THEN UNCHANGED <<reconnectTimer, timers>>
  ELSE /\ reconnectTimer' = TRUE
       /\ timers' = timers + 1

\* connect(): a new WebSocket replaces this.ws
connect ==
  /\ sockets' = Append(sockets, "CONNECTING")
  /\ ws' = Len(sockets) + 1

\* App state config: null, or the object a load returned (every load returns
\* a new object) with or without gateway.auth.token
NoConfig == [ver |-> 0, token |-> FALSE]

\* the value of gatewayClient in the closure of the mount effect (deps []):
\* the state of the first render, null
CapturedClient == 0

\* ---------------------------------------------------------------- initial state
Init ==
  /\ sockets = << >>
  /\ ws = 0
  /\ pending = [i \in Ids |-> 0]
  /\ reconnectTimer = FALSE
  /\ timers = 0
  /\ calls = << >>
  /\ refused = [m \in Methods |-> 0]
  /\ sent = << >>
  /\ arrived = << >>
  /\ eventLog = << >>
  /\ statusLog = << >>
  /\ userDisconnected = FALSE
  /\ reconnects = 0
  /\ lastFrame = NoFrame
  /\ isOnboarded = FALSE
  /\ config = NoConfig
  /\ gatewayClient = 0
  /\ effectDue = FALSE
  /\ constructed = 0
  /\ appMounted = TRUE
  /\ inFlight = 1
  /\ chatTab = FALSE
  /\ chatEffectDue = FALSE
  /\ wrappers = 0
  /\ chatMessages = << >>
  /\ streamingMessage = << >>
  /\ awaiting = {}
  /\ handled = << >>

\* ---------------------------------------------------------------- actions
\* the owner calls connect()
Connect ==
  /\ Len(sockets) < MaxSockets
  /\ connect
  /\ userDisconnected' = FALSE
  /\ lastFrame' = NoFrame
  /\ UNCHANGED <<pending, reconnectTimer, timers, calls, refused, sent,
                 arrived, eventLog, statusLog, reconnects>>
  /\ UNCHANGED <<appVars, chatVars>>


\* the UI shell calls connect() once, on the client it has just constructed
FirstConnect ==
  /\ ws = 0
  /\ Connect

\* the owner calls disconnect()
DisconnectCancel ==
  /\ sockets' = CloseSocket(sockets, ws)
  /\ userDisconnected' = TRUE
  /\ lastFrame' = NoFrame
  /\ pending' = [i \in Ids |-> 0]
  /\ calls' = [c \in 1..Len(calls) |->
                IF calls[c].outcome = "pending"
                THEN [calls[c] EXCEPT !.outcome = "cancelled", !.settles = 1]
                ELSE calls[c]]
  /\ UNCHANGED <<ws, reconnectTimer, timers, refused, sent,
                 arrived, eventLog, statusLog, reconnects>>
  /\ UNCHANGED <<appVars, chatVars>>
Disconnect ==
  /\ sockets' = CloseSocket(sockets, ws)
  /\ userDisconnected' = TRUE
  /\ lastFrame' = NoFrame
  /\ UNCHANGED <<ws, pending, reconnectTimer, timers, calls, refused, sent,
                 arrived, eventLog, statusLog, reconnects>>
  /\ UNCHANGED <<appVars, chatVars>>


\* authenticate(): the handshake request; a failure is caught and logged
authenticate(socks) ==
  \E id \in Ids : request(socks, "connect", HandshakeParams, id)

\* ws.onopen of socket s: status observer, then authenticate()
OnOpen(s) ==
  /\ sockets[s] = "CONNECTING"
  /\ Requests < MaxCalls
  /\ sockets' = SetReadyState(sockets, s, "OPEN")
  /\ onStatusChange(TRUE)
  /\ authenticate(sockets')
  /\ lastFrame' = NoFrame
  /\ UNCHANGED <<ws, reconnectTimer, timers, arrived, eventLog,
                 userDisconnected, reconnects>>
  /\ UNCHANGED <<appVars, chatVars>>


\* a UI panel calls request()
Request ==
  /\ Requests < MaxCalls
  /\ \E id \in Ids : request(sockets, "chat.send", NoParams, id)
  /\ lastFrame' = NoFrame
  /\ UNCHANGED <<sockets, ws, reconnectTimer, timers, arrived, eventLog,
                 statusLog, userDisconnected, reconnects>>
  /\ UNCHANGED <<appVars, chatVars>>


\* the call of the entry that was set first
Oldest(p) == CHOOSE c \in {p[i] : i \in Ids} \ {0} :
               \A i \in Ids : p[i] # 0 => c <= p[i]
\* this.pending.get(frame.id)
LookupAny(p, id) == IF \E i \in Ids : p[i] # 0 THEN Oldest(p) ELSE 0
LookupOldest(p, id) == IF p[id] # 0 THEN Oldest(p) ELSE 0
Lookup(p, id) == p[id]

\* this.pending.delete(frame.id)
Delete(p, id) == [p EXCEPT ![id] = 0]

\* frame.<k> of a parsed frame: undefined when the frame has no such field
Field(f, k) == IF k \in DOMAIN f THEN f[k] ELSE "undefined"

\* the branch of onmessage a frame takes: frame.type === "res", else
\* frame.type === "event", else none
FrameClassElse(f) == IF Field(f, "type") = "res" THEN "res" ELSE "event"
FrameClass(f) ==
  IF Field(f, "type") = "res" THEN "res"
  ELSE IF Field(f, "type") = "event" THEN "event"
  ELSE "other"

\* the handler invocations the event branch makes for one frame
DispatchTwice(f) == << <<f.event, f.payload>>, <<f.event, f.payload>> >>
Dispatch(f) == << <<Field(f, "event"), Field(f, "payload")>> >>

\* p.resolve(frame.payload) / p.reject(frame.error) on call c: a promise
\* keeps its first settlement
SettleWrapped(c, f) ==
  IF c.settles = 0
  THEN [c EXCEPT !.outcome = IF f.ok THEN "resolved" ELSE "rejected",
                 !.value = IF f.ok THEN f.payload ELSE "Error",
                 !.by = f,
                 !.settles = 1]
  ELSE [c EXCEPT !.settles = c.settles + 1]
Settle(c, f) ==
  IF c.settles = 0
  THEN [c EXCEPT !.outcome = IF f.ok THEN "resolved" ELSE "rejected",
                 !.value = IF f.ok THEN f.payload ELSE f.error,
                 !.by = f,
                 !.settles = 1]
  ELSE [c EXCEPT !.settles = c.settles + 1]

\* client.onEvent after n wraps by ChatTab: the newest wrapper runs first and
\* each calls the handler it replaced (originalOnEvent), down to the
\* handler given at construction (level 0)
OnEventNoChain(n, e, p) == << [level |-> n, event |-> e, payload |-> p] >>
OnEventChain(n, e, p) ==
  [k \in 1..(n + 1) |-> [level |-> n + 1 - k, event |-> e, payload |-> p]]

\* what the n wrappers make of one event: setStreamingMessage(prev + delta)
\* for chat.stream; setMessages([...prev, agent message]) and
\* setStreamingMessage("") for chat.done
StreamAfter(n, e, p) ==
  IF n > 0 /\ e = "chat.stream"
  THEN streamingMessage \o [k \in 1..n |-> p[2]]
  ELSE IF n > 0 /\ e = "chat.done" THEN << >>
  ELSE streamingMessage
MessagesAfter(n, e, p) ==
  IF e = "chat.done"
  THEN chatMessages \o [k \in 1..n |-> [role |-> "agent", content |-> p[2]]]
  ELSE chatMessages

\* the catch block of handleSend: "Error: " + (e.message || JSON.stringify(e))
ErrorMessage(e) == [role |-> "agent", content |-> <<"Error: ", e>>]

\* the catch block of authenticate(): console.error, nothing else
authFailedClose(socks) == CloseSocket(socks, ws)
authFailed(socks) == socks

\* ws.onmessage of socket s with the parsed frame f (frames still arrive
\* while a socket is closing); a rejected "connect" call resumes
\* authenticate() in its catch block
OnMessage(s, f) ==
  /\ sockets[s] \in {"OPEN", "CLOSING"}
  /\ f.type = "event" => Len(arrived) < MaxEvents
  /\ arrived' = IF f.type = "event" THEN Append(arrived, f) ELSE arrived
  /\ IF FrameClass(f) = "res"
     THEN LET p == Lookup(pending, f.id) IN
          IF p # 0
          THEN /\ pending' = Delete(pending, f.id)
               /\ calls' = [calls EXCEPT ![p] = Settle(calls[p], f)]
               /\ sockets' = IF calls[p].method = "connect"
                                 /\ calls'[p].outcome = "rejected"
                                 /\ calls[p].outcome = "pending"
                              THEN authFailed(sockets)
                              ELSE sockets
               /\ awaiting' = awaiting \ {p}
               /\ chatMessages' = IF p \in awaiting
                                      /\ calls'[p].outcome = "rejected"
                                      /\ calls[p].outcome = "pending"
                                   THEN Append(chatMessages, ErrorMessage(f.error))
                                   ELSE chatMessages
               /\ UNCHANGED <<eventLog, handled, streamingMessage>>
          ELSE UNCHANGED <<pending, calls, eventLog, sockets, awaiting,
                           chatMessages, handled, streamingMessage>>
     ELSE IF FrameClass(f) = "event"
     THEN /\ eventLog' = eventLog \o Dispatch(f)
          /\ handled' = handled \o OnEventChain(wrappers, Field(f, "event"),
                                                 Field(f, "payload"))
          /\ streamingMessage' = StreamAfter(wrappers, Field(f, "event"),
                                             Field(f, "payload"))
          /\ chatMessages' = MessagesAfter(wrappers, Field(f, "event"),
                                           Field(f, "payload"))
          /\ UNCHANGED <<pending, calls, sockets, awaiting>>
     ELSE UNCHANGED <<pending, calls, eventLog, sockets, awaiting,
                      chatMessages, handled, streamingMessage>>
  /\ UNCHANGED <<appVars, chatTab, chatEffectDue, wrappers>>
  /\ lastFrame' = Header(f)
  /\ UNCHANGED <<ws, reconnectTimer, timers, refused, sent,
                 statusLog, userDisconnected, reconnects>>

\* the transport of socket s closes; when it failed, onerror runs first
\* (this.ws?.close()) and then onclose
OnClose(s, withError) ==
  /\ sockets[s] # "CLOSED"
  /\ LET closed == SetReadyState(sockets, s, "CLOSED") IN
     sockets' = IF withError THEN CloseSocket(closed, ws) ELSE closed
  /\ onStatusChange(FALSE)
  /\ scheduleReconnect
  /\ lastFrame' = NoFrame
  /\ UNCHANGED <<ws, pending, calls, refused, sent, arrived, eventLog,
                 userDisconnected, reconnects>>
  /\ UNCHANGED <<appVars, chatVars>>


\* the reconnect timeout runs
TimerFireReplay ==
  /\ timers > 0
  /\ Len(sockets) < MaxSockets
  /\ timers' = timers - 1
  /\ reconnectTimer' = FALSE
  /\ connect
  /\ reconnects' = reconnects + 1
  /\ lastFrame' = NoFrame
  /\ sent' = IF \E i \in Ids : pending[i] # 0
             THEN Append(sent, [sock |-> Len(sockets) + 1,
                                frame |-> sent[Oldest(pending)].frame])
             ELSE sent
  /\ UNCHANGED <<pending, calls, refused, arrived, eventLog, statusLog,
                 userDisconnected>>
  /\ UNCHANGED <<appVars, chatVars>>
TimerFire ==
  /\ timers > 0
  /\ Len(sockets) < MaxSockets
  /\ timers' = timers - 1
  /\ reconnectTimer' = FALSE
  /\ connect
  /\ reconnects' = reconnects + 1
  /\ lastFrame' = NoFrame
  /\ UNCHANGED <<pending, calls, refused, sent, arrived, eventLog, statusLog,
                 userDisconnected>>
  /\ UNCHANGED <<appVars, chatVars>>


\* ---------------------------------------------------------------- UI shell
\* checkOnboarding(): the config load returns; with agents in it, setConfig
\* and setIsOnboarded(true), and the render that follows mounts ChatTab when
\* the onboarding overlay goes away
ConfigLoaded(ok, hasToken) ==
  /\ inFlight > 0
  /\ ~effectDue /\ ~chatEffectDue
  /\ inFlight' = inFlight - 1
  /\ IF ok /\ appMounted
     THEN /\ config' = [ver |-> config.ver + 1, token |-> hasToken]
          /\ isOnboarded' = TRUE
          /\ effectDue' = TRUE
          /\ chatTab' = IF isOnboarded THEN chatTab ELSE TRUE
          /\ chatEffectDue' = ~isOnboarded
     ELSE UNCHANGED <<config, isOnboarded, effectDue, chatTab, chatEffectDue>>
  /\ lastFrame' = NoFrame
  /\ UNCHANGED <<clientState, gatewayClient, constructed, appMounted, wrappers,
                 chatMessages, streamingMessage, awaiting, handled>>

\* finishOnboarding(): setIsOnboarded(true), then checkOnboarding()
finishOnboarding ==
  /\ appMounted /\ ~isOnboarded
  /\ ~effectDue /\ ~chatEffectDue
  /\ isOnboarded' = TRUE
  /\ inFlight' = inFlight + 1
  /\ effectDue' = TRUE
  /\ chatTab' = TRUE
  /\ chatEffectDue' = TRUE
  /\ lastFrame' = NoFrame
  /\ UNCHANGED <<clientState, config, gatewayClient, constructed, appMounted,
                 wrappers, chatMessages, streamingMessage, awaiting, handled>>

\* the condition of the gateway client effect
ShouldConstructAgain == isOnboarded /\ config # NoConfig /\ config.token
ShouldConstruct ==
  isOnboarded /\ config # NoConfig /\ gatewayClient = 0 /\ config.token

\* the gateway client effect (deps isOnboarded, config, gatewayClient): new
\* GatewayClient, client.connect(), setGatewayClient(client); the render
\* that follows hands the client to a mounted ChatTab
GatewayClientEffect ==
  /\ appMounted /\ effectDue
  /\ IF ShouldConstruct
     THEN /\ Len(sockets) < MaxSockets
          /\ constructed' = constructed + 1
          /\ gatewayClient' = constructed + 1
          /\ connect
          /\ effectDue' = TRUE
          /\ chatEffectDue' = chatTab
     ELSE /\ effectDue' = FALSE
          /\ UNCHANGED <<constructed, gatewayClient, sockets, ws, chatEffectDue>>
  /\ lastFrame' = NoFrame
  /\ UNCHANGED <<pending, reconnectTimer, timers, calls, refused, sent,
                 arrived, eventLog, statusLog, userDisconnected, reconnects,
                 isOnboarded, config, appMounted, inFlight, chatTab, wrappers,
                 chatMessages, streamingMessage, awaiting, handled>>

\* App unmounts: the cleanup of the mount effect runs
\* gatewayClient?.disconnect() on the value its closure captured
Unmount ==
  /\ appMounted
  /\ appMounted' = FALSE
  /\ IF CapturedClient # 0
     THEN /\ sockets' = CloseSocket(sockets, ws)
          /\ userDisconnected' = TRUE
     ELSE UNCHANGED <<sockets, userDisconnected>>
  /\ chatTab' = FALSE
  /\ effectDue' = FALSE
  /\ chatEffectDue' = FALSE
  /\ lastFrame' = NoFrame
  /\ UNCHANGED <<ws, pending, reconnectTimer, timers, calls, refused, sent,
                 arrived, eventLog, statusLog, reconnects, isOnboarded, config,
                 gatewayClient, constructed, inFlight, wrappers, chatMessages,
                 streamingMessage, awaiting, handled>>

Next ==
  \/ FirstConnect
  \/ Disconnect
  \/ \E s \in 1..Len(sockets) : OnOpen(s)
  \/ Request
  \/ \E s \in 1..Len(sockets) : \E f \in Frames : OnMessage(s, f)
  \/ \E s \in 1..Len(sockets) : \E e \in BOOLEAN : OnClose(s, e)
  \/ TimerFire

Spec == Init /\ [][Next]_vars

\* any use of the lifecycle API: connect() at any time, no request traffic
NextApi ==
  \/ Connect
  \/ Disconnect
  \/ \E s \in 1..Len(sockets) : OnOpen(s)
  \/ \E s \in 1..Len(sockets) : \E e \in BOOLEAN : OnClose(s, e)
  \/ TimerFire

SpecApi == Init /\ [][NextApi]_vars

\* the user switches tabs: App renders ChatTab only while activeTab is
\* "chat", so the panel is unmounted or a new instance is mounted
TabSwitch ==
  /\ appMounted /\ isOnboarded
  /\ ~effectDue /\ ~chatEffectDue
  /\ chatTab \/ wrappers < MaxWraps
  /\ chatTab' = ~chatTab
  /\ chatEffectDue' = ~chatTab
  /\ lastFrame' = NoFrame
  /\ UNCHANGED <<clientState, appVars, wrappers, chatMessages,
                 streamingMessage, awaiting, handled>>

\* the event-handler effect of ChatTab (deps client, no cleanup): with a
\* client, client.onEvent is replaced by a wrapper around the current one
ChatEffect ==
  /\ chatTab /\ chatEffectDue
  /\ chatEffectDue' = FALSE
  /\ wrappers' = IF gatewayClient # 0 THEN wrappers + 1 ELSE wrappers
  /\ lastFrame' = NoFrame
  /\ UNCHANGED <<clientState, appVars, chatTab, chatMessages,
                 streamingMessage, awaiting, handled>>

\* the message of the Error request() throws
NotConnected == "Not connected to gateway"

\* handleSend with some input: the user message is appended, then
\* client.request("chat.send", ...) is awaited; a throw lands in the catch
\* block at once
handleSend ==
  /\ chatTab /\ gatewayClient # 0
  /\ Requests < MaxCalls
  /\ \E id \in Ids : request(sockets, "chat.send", NoParams, id)
  /\ IF IsOpen(sockets)
     THEN /\ chatMessages' = Append(chatMessages,
                                     [role |-> "user", content |-> "input"])
          /\ awaiting' = awaiting \cup {Len(calls) + 1}
     ELSE /\ chatMessages' = chatMessages \o
                                << [role |-> "user", content |-> "input"],
                                   ErrorMessage(NotConnected) >>
          /\ UNCHANGED awaiting
  /\ lastFrame' = NoFrame
  /\ UNCHANGED <<sockets, ws, reconnectTimer, timers, arrived, eventLog,
                 statusLog, userDisconnected, reconnects, appVars, chatTab,
                 chatEffectDue, wrappers, streamingMessage, handled>>

\* the events the chat panel handles: the k-th is a delta or the end of a turn
ChatEventFrames(k) ==
  {EventFrame(k),
   [type |-> "event", event |-> "chat.done", payload |-> <<"text", k>>,
    seq |-> k]}

\* the state after onboarding, once the shell has constructed and connected
\* its client and rendered ChatTab with it
InitChat ==
  /\ sockets = <<"CONNECTING">>
  /\ ws = 1
  /\ pending = [i \in Ids |-> 0]
  /\ reconnectTimer = FALSE
  /\ timers = 0
  /\ calls = << >>
  /\ refused = [m \in Methods |-> 0]
  /\ sent = << >>
  /\ arrived = << >>
  /\ eventLog = << >>
  /\ statusLog = << >>
  /\ userDisconnected = FALSE
  /\ reconnects = 0
  /\ lastFrame = NoFrame
  /\ isOnboarded = TRUE
  /\ config = [ver |-> 1, token |-> TRUE]
  /\ gatewayClient = 1
  /\ effectDue = FALSE
  /\ constructed = 1
  /\ appMounted = TRUE
  /\ inFlight = 0
  /\ chatTab = TRUE
  /\ chatEffectDue = TRUE
  /\ wrappers = 0
  /\ chatMessages = << >>
  /\ streamingMessage = << >>
  /\ awaiting = {}
  /\ handled = << >>

\* the chat panel receiving events from the client of the session while the
\* user switches tabs
NextChat ==
  \/ TabSwitch
  \/ ChatEffect
  \/ \E s \in 1..Len(sockets) : OnOpen(s)
  \/ \E s \in 1..Len(sockets) :
       \E f \in ChatEventFrames(Len(arrived) + 1) : OnMessage(s, f)
  \/ \E s \in 1..Len(sockets) : \E e \in BOOLEAN : OnClose(s, e)

SpecChat == InitChat /\ [][NextChat]_vars

\* the chat panel sending messages through the client of the session
NextSend ==
  \/ ChatEffect
  \/ handleSend
  \/ \E s \in 1..Len(sockets) : OnOpen(s)
  \/ \E s \in 1..Len(sockets) : \E f \in ResFrames : OnMessage(s, f)
  \/ \E s \in 1..Len(sockets) : \E e \in BOOLEAN : OnClose(s, e)

SpecSend == InitChat /\ [][NextSend]_vars

\* the UI shell and the lifecycle of the client it constructs
NextShell ==
  \/ \E ok, hasToken \in BOOLEAN : ConfigLoaded(ok, hasToken)
  \/ finishOnboarding
  \/ GatewayClientEffect
  \/ TabSwitch
  \/ ChatEffect
  \/ Unmount
  \/ \E s \in 1..Len(sockets) : OnOpen(s)
  \/ \E s \in 1..Len(sockets) : \E e \in BOOLEAN : OnClose(s, e)
  \/ TimerFire

SpecShell == Init /\ [][NextShell]_vars

\* the event loop runs every timeout callback that has been scheduled
SpecApiFair == SpecApi /\ WF_vars(TimerFire)

\* ---------------------------------------------------------------- properties
Closed == {s \in 1..Len(sockets) : sockets[s] = "CLOSED"}
Outstanding == {c \in 1..Len(calls) : calls[c].outcome = "pending"}

\* C1: when a transport closes, every request pending at that moment is
\* rejected with a connection-lost error and the pending table is empty
\* right after the close.
C1_CloseDrainsPending ==
  [][(\E s \in 1..Len(sockets) : sockets[s] # "CLOSED" /\ sockets'[s] = "CLOSED")
       => /\ \A i \in Ids : pending'[i] = 0
          /\ \A c \in Outstanding : calls'[c].outcome = "connection_lost"]_vars

\* C2: every accepted request is settled at most once, and is settled once
\* its transport has closed (it is not left pending across a close).
C2_ExactlyOneOutcome ==
  \A c \in 1..Len(calls) :
    /\ calls[c].settles <= 1
    /\ sockets[calls[c].sock] = "CLOSED" => calls[c].outcome # "pending"

\* C3: after disconnect() no transport is opened until the caller itself
\* calls connect() again.
C3_NoReconnectAfterDisconnect ==
  [][(userDisconnected /\ Len(sockets') > Len(sockets)) => ~userDisconnected']_vars

\* C4: a request() made while the transport is not open throws not-connected
\* and leaves the pending table and the wire untouched; a request is recorded
\* and sent only while this.ws is OPEN.
C4_NotConnectedNoEffect ==
  [][LET open == ws' # 0 /\ sockets'[ws'] = "OPEN" IN
     /\ (\E m \in Methods : refused'[m] > refused[m])
          => ~open /\ pending' = pending /\ sent' = sent /\ calls' = calls
     /\ (\/ Len(calls') > Len(calls)
         \/ sent' # sent
         \/ \E i \in Ids : pending'[i] # 0 /\ pending'[i] # pending[i])
          => open]_vars

\* C4 witness: a panel's request was refused, the socket is closing and the
\* handshake is the only request recorded and sent.
C4_Witness ==
  /\ refused["chat.send"] >= 1
  /\ ws # 0 /\ sockets[ws] = "CLOSING"
  /\ Len(calls) = 1 /\ Len(sent) = 1
  /\ \E i \in Ids : pending[i] = 1

\* C5: a settled request was settled by the response that carries its own
\* id, with that response's payload (ok) or error (not ok), whatever the
\* order in which responses arrive.
C5_SettledByOwnResponse ==
  \A c \in 1..Len(calls) :
    calls[c].outcome # "pending" =>
      /\ calls[c].by.type = "res"
      /\ calls[c].by.id = calls[c].id
      /\ IF calls[c].by.ok
         THEN /\ calls[c].outcome = "resolved"
              /\ calls[c].value = calls[c].by.payload
              /\ calls[c].value = PayloadOf(calls[c].id)
         ELSE /\ calls[c].outcome = "rejected"
              /\ calls[c].value = calls[c].by.error

\* C5 witness: of two requests outstanding together under distinct ids, the
\* one sent later has been answered first.
C5_Witness ==
  \E a, b \in 1..Len(calls) :
    /\ a < b
    /\ calls[a].id # calls[b].id
    /\ calls[a].outcome = "pending" /\ pending[calls[a].id] = a
    /\ calls[b].outcome = "resolved" /\ calls[b].value = PayloadOf(calls[b].id)

\* C6: when a reconnect's transport opens after every earlier transport has
\* closed, the pending table holds nothing but the new session's handshake.
C6_ReconnectStartsClean ==
  [][\A s \in 1..Len(sockets) :
       (/\ s > 1
        /\ sockets[s] = "CONNECTING" /\ sockets'[s] = "OPEN"
        /\ \A t \in 1..(s - 1) : sockets[t] = "CLOSED")
       => \A i \in Ids : pending'[i] # 0 => calls'[pending'[i]].sock = s]_vars

\* C7: request() never records a request under an id that is already a key
\* of the pending table.
C7_FreshIds ==
  [][Len(calls') = Len(calls) + 1
       => pending[calls'[Len(calls')].id] = 0]_vars

\* C8: at most one reconnect timeout is scheduled at any time, the timer
\* field records exactly whether one is, and every reconnect attempt made or
\* scheduled answers a close of its own.
C8_SingleReconnectTimer ==
  /\ timers <= 1
  /\ reconnectTimer <=> timers = 1
  /\ reconnects + timers <= Cardinality(Closed)

\* C8 witness: two close signals have arrived before any timeout ran and a
\* single timeout is scheduled.
C8_Witness ==
  /\ reconnects = 0
  /\ Cardinality(Closed) = 2
  /\ timers = 1

\* C9: a Response whose id has no entry in the pending table changes
\* nothing: the table, every caller's outcome and the event handler's log
\* stay as they were.
C9_UnmatchedResponseIgnored ==
  [][(lastFrame'.type = "res" /\ pending[lastFrame'.id] = 0)
       => UNCHANGED <<pending, calls, eventLog, sockets, ws, sent, refused>>]_vars

\* C9 witness: a Response arrived last while another request was pending and
\* no request has ever been settled.
C9_Witness ==
  /\ lastFrame.type = "res"
  /\ pending[lastFrame.id] = 0
  /\ \E i \in Ids : pending[i] # 0
  /\ Outstanding = 1..Len(calls)

\* C10: the event handler's invocations are exactly the Event frames that
\* arrived, one invocation per frame, with the frame's (event, payload), in
\* arrival order.
C10_EventsInArrivalOrder ==
  eventLog = [k \in 1..Len(arrived) |-> <<arrived[k].event, arrived[k].payload>>]

\* C10 witness: two Event frames arrived and were handed over in order.
C10_Witness ==
  /\ Len(arrived) = 2
  /\ eventLog = << <<"chat.stream", <<"delta", 1>> >>,
                   <<"chat.stream", <<"delta", 2>> >> >>

C12_StatusOnEveryTransition ==
  [][LET opened == \E s \in 1..Len(sockets) :
                     sockets[s] # "OPEN" /\ sockets'[s] = "OPEN"
         closed == \E s \in 1..Len(sockets) :
                     sockets[s] # "CLOSED" /\ sockets'[s] = "CLOSED"
     IN /\ opened => statusLog' = Append(statusLog, TRUE)
        /\ closed => statusLog' = Append(statusLog, FALSE)
        /\ ~(opened \/ closed) => statusLog' = statusLog]_vars

C12_Witness ==
  /\ Len(sockets) = 2
  /\ sockets[1] = "CLOSED" /\ sockets[2] = "CLOSED"
  /\ statusLog = <<TRUE, FALSE, FALSE>>

\* the "connect" frames sent on socket s
HandshakesOn(s, log) ==
  {i \in 1..Len(log) : log[i].sock = s /\ log[i].frame.method = "connect"}

\* C13: the handshake is performed exactly once per transport open,
\* immediately on open: the step that opens socket s sends, as the first
\* frame on s, a "connect" request carrying the construction token, and no
\* socket ever carries a second "connect" request.
C13_HandshakeOncePerOpen ==
  [][/\ \A s \in 1..Len(sockets) :
          (sockets[s] = "CONNECTING" /\ sockets'[s] = "OPEN")
            => /\ \A i \in 1..Len(sent) : sent[i].sock # s
               /\ Len(sent') = Len(sent) + 1
               /\ sent'[Len(sent')].sock = s
               /\ sent'[Len(sent')].frame.method = "connect"
               /\ sent'[Len(sent')].frame.params.token = Token
     /\ \A s \in 1..Len(sockets') :
          Cardinality(HandshakesOn(s, sent')) <= 1]_vars

\* C14: a rejected handshake (the "connect" call settles as rejected) leaves
\* the transport as it is: the step closes no socket, schedules no
\* reconnect and notifies no status; and while the transport with the
\* rejected handshake is open, no request() is refused.
C14_RejectedHandshakeKeepsTransport ==
  [][/\ \A c \in 1..Len(calls) :
          (/\ calls[c].method = "connect"
           /\ calls[c].outcome = "pending"
           /\ calls'[c].outcome = "rejected")
            => UNCHANGED <<sockets, ws, reconnectTimer, timers, statusLog>>
     /\ (\E c \in 1..Len(calls) :
           /\ calls[c].method = "connect" /\ calls[c].outcome = "rejected"
           /\ calls[c].sock = ws /\ sockets[ws] = "OPEN")
          => refused' = refused]_vars

\* the handshake was rejected, the socket is still open with no close
\* notified and no timer, and the last step accepted and sent a request
C14_Witness ==
  /\ sockets = <<"OPEN">> /\ ws = 1
  /\ statusLog = <<TRUE>> /\ timers = 0 /\ ~reconnectTimer
  /\ Len(calls) = 2 /\ Len(sent) = 2
  /\ calls[1].method = "connect" /\ calls[1].outcome = "rejected"
  /\ calls[2].method = "chat.send" /\ calls[2].outcome = "pending"
  /\ sent[2].frame.method = "chat.send" /\ sent[2].sock = 1
  /\ refused = [m \in Methods |-> 0]
  /\ lastFrame = NoFrame

\* C15: a Response with ok = false whose id has a pending entry rejects the
\* call of that entry with exactly the frame's error value, removes the
\* entry, and sends nothing: the step adds no frame and no call, and the
\* call has exactly one frame on the wire ever after.
C15_ErrorResponseRejectsVerbatim ==
  [][\A c \in 1..Len(calls) :
       /\ (lastFrame'.type = "res" /\ pending[lastFrame'.id] = c
            /\ ~calls'[c].by.ok)
            => calls[c].outcome = "pending" /\ calls'[c].outcome = "rejected"
       /\ (calls[c].outcome = "pending" /\ calls'[c].outcome = "rejected")
         => /\ lastFrame'.type = "res" /\ lastFrame'.id = calls[c].id
            /\ pending[calls[c].id] = c
            /\ pending'[calls[c].id] = 0
            /\ calls'[c].by.ok = FALSE
            /\ calls'[c].value = calls'[c].by.error
            /\ calls'[c].value \in Errors
            /\ sent' = sent
            /\ Len(calls') = Len(calls)]_vars

\* a chat.send call was rejected by its error response and the socket has
\* carried no frame since
C15_Witness ==
  /\ Len(calls) = 2 /\ Len(sent) = 2
  /\ calls[2].method = "chat.send"
  /\ calls[2].outcome = "rejected" /\ calls[2].value = "err"
  /\ pending[calls[2].id] = 0
  /\ lastFrame = [type |-> "res", id |-> calls[2].id]

\* every socket created so far has closed
AllClosed == Len(sockets) > 0 /\ \A s \in 1..Len(sockets) : sockets[s] = "CLOSED"

C17_CloseSchedulesReconnect ==
  [][\A s \in 1..Len(sockets) :
       (sockets[s] # "CLOSED" /\ sockets'[s] = "CLOSED")
         => /\ statusLog'[Len(statusLog')] = FALSE
            /\ Len(statusLog') = Len(statusLog) + 1
            /\ reconnectTimer' /\ timers' = 1
            /\ ws' = ws
            /\ \A t \in 1..Len(sockets) :
                 sockets'[t] \in {sockets[t], "CLOSED", "CLOSING"}]_vars

\* socket 1 failed while this.ws was socket 2: onerror asked socket 2 to
\* close (disconnect() was not called), onclose notified false and set the
\* timer
C17_Witness ==
  /\ sockets = <<"CLOSED", "CLOSING">> /\ ws = 2
  /\ ~userDisconnected
  /\ statusLog # << >> /\ ~statusLog[Len(statusLog)]
  /\ reconnectTimer /\ timers = 1

\* C18: requests are never replayed: the frames on the wire are, one for
\* one and in order, the accepted request() calls (same id, method and
\* socket); the reconnect timeout sends nothing, and the open of a socket
\* sends at most the one "connect" frame.
C18_NoReplay ==
  [][/\ Len(sent') = Len(calls')
     /\ \A i \in 1..Len(sent') :
          /\ sent'[i].frame.id = calls'[i].id
          /\ sent'[i].frame.method = calls'[i].method
          /\ sent'[i].sock = calls'[i].sock
     /\ (Len(sockets') > Len(sockets)) => sent' = sent
     /\ (\E s \in 1..Len(sockets) : sockets[s] # "OPEN" /\ sockets'[s] = "OPEN")
          => /\ Len(sent') <= Len(sent) + 1
             /\ \A i \in (Len(sent) + 1)..Len(sent') :
                  sent'[i].frame.method = "connect"]_vars

\* a chat.send is still unanswered from the closed socket 1; socket 2 has
\* opened after the reconnect and carries the new handshake only
C18_Witness ==
  /\ sockets = <<"CLOSED", "OPEN">> /\ reconnects = 1
  /\ Len(calls) = 3 /\ Len(sent) = 3
  /\ calls[2].method = "chat.send" /\ calls[2].sock = 1
  /\ calls[2].outcome = "pending"
  /\ {i \in 1..Len(sent) : sent[i].sock = 2} = {3}
  /\ sent[3].frame.method = "connect"

\* C19: there is no local timeout and no cancellation: a step settles a
\* pending call only if it is the arrival of a Response frame with the
\* call's id, or the close of the call's socket; in every other step, and
\* so for as long as the socket stays open and no such response arrives,
\* the call stays pending and its record is untouched.
C19_NoTimeoutNoCancel ==
  [][\A c \in 1..Len(calls) :
       LET matched == lastFrame'.type = "res" /\ lastFrame'.id = calls[c].id
           closing == /\ sockets[calls[c].sock] # "CLOSED"
                      /\ sockets'[calls[c].sock] = "CLOSED"
       IN /\ (calls[c].outcome = "pending" /\ calls'[c].outcome # "pending")
               => matched \/ closing
          /\ (calls[c].outcome = "pending" /\ ~matched /\ ~closing)
               => calls'[c] = calls[c]]_vars

\* a call is still pending on its open socket although a response for
\* another id has just arrived and events have been delivered
C19_Witness ==
  \E c \in 1..Len(calls) :
    /\ calls[c].outcome = "pending"
    /\ pending[calls[c].id] = c
    /\ sockets[calls[c].sock] = "OPEN"
    /\ lastFrame.type = "res" /\ lastFrame.id # calls[c].id
    /\ Len(arrived) >= 1

\* the handshake sent on this.ws has no response yet
HandshakeOutstanding ==
  \E c \in 1..Len(calls) :
    /\ calls[c].method = "connect" /\ calls[c].sock = ws
    /\ calls[c].outcome = "pending"

\* C20: request() is not gated on the handshake: while this.ws is open and
\* its handshake is still outstanding no request() is refused, and a
\* request made then is recorded as pending under its id and sent on this.ws.
C20_NotGatedOnHandshake ==
  [][(ws # 0 /\ sockets[ws] = "OPEN" /\ HandshakeOutstanding)
       => /\ refused' = refused
          /\ Len(calls') > Len(calls)
               => LET n == Len(calls') IN
                  /\ calls'[n].method = "chat.send"
                  /\ calls'[n].outcome = "pending"
                  /\ pending'[calls'[n].id] = n
                  /\ Len(sent') = Len(sent) + 1
                  /\ sent'[Len(sent')].frame.id = calls'[n].id
                  /\ sent'[Len(sent')].frame.method = "chat.send"
                  /\ sent'[Len(sent')].sock = ws]_vars

\* a chat.send request and the handshake are outstanding together on the
\* open socket
C20_Witness ==
  /\ sockets = <<"OPEN">> /\ ws = 1
  /\ Len(calls) = 2 /\ Len(sent) = 2
  /\ calls[1].method = "connect" /\ calls[1].outcome = "pending"
  /\ calls[2].method = "chat.send" /\ calls[2].outcome = "pending"
  /\ calls[1].id # calls[2].id
  /\ pending[calls[1].id] = 1 /\ pending[calls[2].id] = 2
  /\ sent[2].frame.method = "chat.send" /\ sent[2].sock = 1

\* the sockets that are connecting or open
Live == {s \in 1..Len(sockets) : sockets[s] \in {"CONNECTING", "OPEN"}}

\* C24: at any time at most one socket of the client is connecting or open.
C24_AtMostOneTransport == Cardinality(Live) <= 1

\* the accepted calls whose caller has been neither resolved nor rejected
Unsettled == {c \in 1..Len(calls) : calls[c].settles = 0}

\* C26: the pending table equals the set of requests sent and not yet
\* settled: every unsettled call is the entry of its id, and every entry is
\* an unsettled call.
C26_PendingIsUnsettled ==
  /\ \A c \in Unsettled : pending[calls[c].id] = c
  /\ \A i \in Ids : pending[i] # 0 => pending[i] \in Unsettled

\* C27: the status agrees with request() acceptance: whenever the last
\* signal given to the status observer is false, or none was given,
\* request() throws not-connected (this.ws is null or not OPEN).
C27_StatusAgreesWithRequest ==
  (statusLog = << >> \/ ~statusLog[Len(statusLog)]) => ~IsOpen(sockets)

\* C29: an inbound frame whose type is neither "res" nor "event" is
\* ignored: the step changes neither the pending table nor any call, does
\* not invoke the event handler, and leaves every socket, the status log
\* and the reconnect timer as they were.
C29_OtherFramesIgnored ==
  [][lastFrame'.type \notin {"none", "res", "event"}
       => UNCHANGED <<pending, calls, eventLog, arrived, sockets, ws, sent,
                      refused, statusLog, reconnectTimer, timers>>]_vars

\* a frame of another type has just arrived on the open socket while
\* requests are pending
C29_Witness ==
  /\ lastFrame.type = "ping"
  /\ ws # 0 /\ sockets[ws] = "OPEN"
  /\ Len(calls) = 2 /\ Outstanding = {1, 2}
  /\ \A i \in Ids : pending[i] # 0
  /\ eventLog = << >>

\* C21: the shell constructs (and connects) a GatewayClient at most once,
\* whatever the order of onboarding and config loads.
C21_OneClientPerSession == constructed <= 1

\* the client exists and a second config object has been loaded since
C21_Witness ==
  /\ constructed = 1 /\ gatewayClient = 1
  /\ config.ver = 2 /\ config.token
  /\ ~effectDue /\ inFlight = 0

\* C28: once App has been unmounted, disconnect() has been called on the
\* client the shell constructed.
C28_UnmountDisconnects ==
  (~appMounted /\ constructed >= 1) => userDisconnected

\* C22: wrapping preserves the chain: once ChatTab has wrapped
\* client.onEvent, the delivery of an event invokes the newest wrapper and
\* then, once each and in this order, every handler registered before it,
\* down to the handler given at construction, all with the (event, payload)
\* of the frame.
C22_ChainPreserved ==
  [][(lastFrame'.type = "event" /\ wrappers >= 1)
       => LET f == arrived'[Len(arrived')]
              new == SubSeq(handled', Len(handled) + 1, Len(handled'))
          IN /\ SubSeq(handled', 1, Len(handled)) = handled
             /\ Len(new) = wrappers + 1
             /\ \A k \in 1..Len(new) :
                  /\ new[k].level = wrappers + 1 - k
                  /\ new[k].event = f.event
                  /\ new[k].payload = f.payload]_vars

\* the panel has wrapped the handler twice and an event has gone through
\* both wrappers to the handler given at construction
C22_Witness ==
  /\ wrappers = 2
  /\ Len(handled) >= 3
  /\ handled[Len(handled) - 2].level = 2
  /\ handled[Len(handled) - 1].level = 1
  /\ handled[Len(handled)].level = 0
  /\ handled[Len(handled)].event = "chat.done"
  /\ handled[Len(handled)].payload = handled[Len(handled) - 2].payload

\* C25: whatever the number of mounts of the chat panel, the delivery of a
\* chat.stream event appends one delta to the streaming message and the
\* delivery of a chat.done event appends one agent message.
C25_OnceDespiteRemounts ==
  [][(lastFrame'.type = "event" /\ wrappers >= 1)
       => LET f == arrived'[Len(arrived')] IN
          /\ f.event = "chat.stream"
               => streamingMessage' = Append(streamingMessage, f.payload[2])
          /\ f.event = "chat.done"
               => chatMessages' =
                    Append(chatMessages,
                           [role |-> "agent", content |-> f.payload[2]])]_vars

\* the chat messages of a role among the first n
OfRole(role, n) == {k \in 1..n : chatMessages[k].role = role}

\* the chat.send requests that have failed: refused as not connected,
\* rejected by the server, or outstanding on a socket that has closed
FailedSends ==
  refused["chat.send"]
  + Cardinality({c \in 1..Len(calls) :
                   /\ calls[c].method = "chat.send"
                   /\ \/ calls[c].outcome = "rejected"
                      \/ /\ calls[c].outcome = "pending"
                         /\ sockets[calls[c].sock] = "CLOSED"})

\* C23: every failed chat.send (not connected, rejected by the server, or
\* lost with its connection) has put exactly one agent message "Error: ..."
\* in the chat, after the user message of its handleSend, and nothing else
\* has put an agent message there.
C23_FailedSendShowsError ==
  /\ Cardinality(OfRole("agent", Len(chatMessages))) = FailedSends
  /\ \A k \in OfRole("agent", Len(chatMessages)) :
       /\ chatMessages[k].content \in
            {<<"Error: ", e>> : e \in Errors \cup {NotConnected}}
       /\ Cardinality(OfRole("agent", k)) <= Cardinality(OfRole("user", k))

====
